---- MODULE Spec2Model ----
\* Benchmark scheduling and concurrency coordination of
\* cmd/simple-db-bench/main.go: config.runBench, startCompaction and the
\* seven benchmark bodies of main.
EXTENDS Integers, Sequences, FiniteSets, TLC

\* ---------------------------------------------------------------- bounds
MaxPar == 2            \* largest value of the -par flag explored
MaxKiters == 2         \* largest value of the -kiters flag explored
MaxCompactions == 2    \* cap on the compactions one daemon performs

\* ------------------------------------------------------- program constants
NumBenches == 7
\* The factor of "1000*kiters". The workload loops are modelled in strides of
\* Kilo iterations: one pass of the model through a loop body stands for Kilo
\* consecutive, identical iterations of the code's loop.
Kilo == 1000
Benches == 1..NumBenches
Ids == 0..(MaxPar - 1)
NoVal == -1

\* ------------------------------------------------------------ name strings
\* Strings are sequences of one-character strings, so that the regexp match
\* of runBench can be computed on them.
W_writes == <<"w","r","i","t","e","s">>
W_write == <<"w","r","i","t","e">>
W_reads == <<"r","e","a","d","s">>
W_read == <<"r","e","a","d">>
W_rbuf == <<"r","b","u","f">>
W_table == <<"t","a","b","l","e">>
W_compact == <<"c","o","m","p","a","c","t">>
W_par == <<"p","a","r">>
W_hang == <<"h","a","n","g">>
SP == <<" ">>

DigitChar(d) == <<"0","1","2","3","4","5","6","7","8","9">>[d + 1]

RECURSIVE FormatInt(_)
FormatInt(n) ==
  IF n < 10 THEN <<DigitChar(n)>>
  ELSE FormatInt(n \div 10) \o <<DigitChar(n % 10)>>

ParSuffix(p) == W_par \o <<"=">> \o FormatInt(p)

BenchName(b, p) ==
  CASE b = 1 -> W_writes
    [] b = 2 -> W_write \o SP \o <<"+">> \o SP \o W_compact
    [] b = 3 -> W_rbuf \o SP \o W_reads
    [] b = 4 -> W_table \o SP \o W_reads
    [] b = 5 -> W_table \o SP \o W_reads \o SP \o <<"(">> \o ParSuffix(p) \o <<")">>
    [] b = 6 -> W_rbuf \o SP \o W_reads \o SP \o <<"(">> \o ParSuffix(p) \o <<")">>
    [] b = 7 -> W_read \o SP \o ParSuffix(p) \o SP \o <<"+">> \o SP \o W_compact

BenchPar(b, p) == IF b <= 4 THEN 1 ELSE p

\* The -run flag values explored: the empty default and literal patterns.
FilterStrings == { <<>>, W_write, W_rbuf, W_hang }

\* main: an empty -run flag compiles ".*", any other string compiles itself.
CompileFilter(s) ==
  IF s = <<>> THEN [kind |-> "dotstar", lit |-> <<>>]
  ELSE [kind |-> "literal", lit |-> s]

\* regexp.MatchString is unanchored: a literal matches wherever it occurs.
MatchString(re, s) ==
  \/ re.kind = "dotstar"
  \/ /\ re.kind = "literal"
     /\ Len(re.lit) <= Len(s)
     /\ \E k \in 0..(Len(s) - Len(re.lit)) :
          SubSeq(s, k + 1, k + Len(re.lit)) = re.lit

\* ------------------------------------------------------- benchmark bodies
\* Each body is the sequence of statements main's closure executes.
BodyFinishEarly(b) ==
  CASE b = 1 -> <<"WriteLoop", "Compact">>
    [] b = 2 -> <<"Fill", "Reset", "startCompaction", "WriteLoop",
                  "finish", "recvStop", "printf">>
    [] b = 3 -> <<"Fill", "Reset", "ReadLoop">>
    [] b = 4 -> <<"Fill", "Compact", "Compact", "Reset", "ReadLoop">>
    [] b = 5 -> <<"Fill", "Compact", "Compact", "Reset",
                  "makeDone", "spawn", "join">>
    [] b = 6 -> <<"Fill", "Compact", "Reset", "makeDone", "spawn", "join">>
    [] b = 7 -> <<"Fill", "Compact", "Reset", "startCompaction",
                  "makeDone", "spawn", "finish", "join", "recvStop", "printf">>

BodyNoJoin(b) ==
  CASE b = 1 -> <<"WriteLoop", "Compact">>
    [] b = 2 -> <<"Fill", "Reset", "startCompaction", "WriteLoop",
                  "finish", "recvStop", "printf">>
    [] b = 3 -> <<"Fill", "Reset", "ReadLoop">>
    [] b = 4 -> <<"Fill", "Compact", "Compact", "Reset", "ReadLoop">>
    [] b = 5 -> <<"Fill", "Compact", "Compact", "Reset",
                  "makeDone", "spawn">>
    [] b = 6 -> <<"Fill", "Compact", "Reset", "makeDone", "spawn">>
    [] b = 7 -> <<"Fill", "Compact", "Reset", "startCompaction",
                  "makeDone", "spawn", "finish", "recvStop", "printf">>

BodyDaemonFirst(b) ==
  CASE b = 1 -> <<"WriteLoop", "Compact">>
    [] b = 2 -> <<"Fill", "Reset", "startCompaction", "WriteLoop",
                  "finish", "recvStop", "printf">>
    [] b = 3 -> <<"Fill", "Reset", "ReadLoop">>
    [] b = 4 -> <<"Fill", "Compact", "Compact", "Reset", "ReadLoop">>
    [] b = 5 -> <<"Fill", "Compact", "Compact", "Reset",
                  "makeDone", "spawn", "join">>
    [] b = 6 -> <<"Fill", "Compact", "Reset", "makeDone", "spawn", "join">>
    [] b = 7 -> <<"Fill", "startCompaction", "Compact", "Reset",
                  "makeDone", "spawn", "join", "finish", "recvStop", "printf">>

BodyStopFirst(b) ==
  CASE b = 1 -> <<"WriteLoop", "Compact">>
    [] b = 2 -> <<"Fill", "Reset", "startCompaction", "WriteLoop",
                  "recvStop", "printf", "finish">>
    [] b = 3 -> <<"Fill", "Reset", "ReadLoop">>
    [] b = 4 -> <<"Fill", "Compact", "Compact", "Reset", "ReadLoop">>
    [] b = 5 -> <<"Fill", "Compact", "Compact", "Reset",
                  "makeDone", "spawn", "join">>
    [] b = 6 -> <<"Fill", "Compact", "Reset", "makeDone", "spawn", "join">>
    [] b = 7 -> <<"Fill", "Compact", "Reset", "startCompaction",
                  "makeDone", "spawn", "join", "recvStop", "printf", "finish">>

BodyNoRecv(b) ==
  CASE b = 1 -> <<"WriteLoop", "Compact">>
    [] b = 2 -> <<"Fill", "Reset", "startCompaction", "WriteLoop", "finish">>
    [] b = 3 -> <<"Fill", "Reset", "ReadLoop">>
    [] b = 4 -> <<"Fill", "Compact", "Compact", "Reset", "ReadLoop">>
    [] b = 5 -> <<"Fill", "Compact", "Compact", "Reset",
                  "makeDone", "spawn", "join">>
    [] b = 6 -> <<"Fill", "Compact", "Reset", "makeDone", "spawn", "join">>
    [] b = 7 -> <<"Fill", "Compact", "Reset", "startCompaction",
                  "makeDone", "spawn", "join", "finish">>

Body(b) ==
  CASE b = 1 -> <<"WriteLoop", "Compact">>
    [] b = 2 -> <<"Fill", "Reset", "startCompaction", "WriteLoop",
                  "finish", "recvStop", "printf">>
    [] b = 3 -> <<"Fill", "Reset", "ReadLoop">>
    [] b = 4 -> <<"Fill", "Compact", "Compact", "Reset", "ReadLoop">>
    [] b = 5 -> <<"Fill", "Compact", "Compact", "Reset",
                  "makeDone", "spawn", "join">>
    [] b = 6 -> <<"Fill", "Compact", "Reset", "makeDone", "spawn", "join">>
    [] b = 7 -> <<"Fill", "Compact", "Reset", "startCompaction",
                  "makeDone", "spawn", "join", "finish", "recvStop", "printf">>

\* ------------------------------------------------------------------ state
VARIABLES
  conf,      \* config: BenchFilter, ListBenches
  kiters,    \* -kiters flag
  par,       \* -par flag
  bi,        \* index of the runBench call main is at (NumBenches+1: past all)
  mpc,       \* main's position inside runBench
  ip,        \* index of the body statement main is at
  i,         \* main's loop variable (i or tid)
  mcall,     \* the bencher call main is inside, "none" between calls
  bench,     \* the Bench Handle of each benchmark
  events,    \* per benchmark, the statements main has completed, in order
  out,       \* lines printed to the console
  daemon,    \* per benchmark, the goroutine of startCompaction and its channel
  worker,    \* per benchmark and tid, the fan-out goroutine
  tally      \* per benchmark, bencher calls issued, by worker id

vars == <<conf, kiters, par, bi, mpc, ip, i, mcall, bench, events, out,
          daemon, worker, tally>>

NoHandle ==
  [state |-> "none", par |-> 0, invoked |-> FALSE, returned |-> FALSE,
   finishedFlag |-> FALSE, finishes |-> 0, stops |-> 0,
   finishedBy |-> "none", joinRecvs |-> 0]

NoDaemon ==
  [pc |-> "none", numCompactions |-> 0, completed |-> 0, sent |-> 0,
   got |-> NoVal, recvq |-> FALSE, waitPc |-> "none", waitDone |-> NoVal]

NoWorker == [pc |-> "none", i |-> 0, tid |-> 0, sends |-> 0]

ZeroIds == [t \in Ids |-> 0]

NoTally ==
  [Read |-> ZeroIds, Write |-> ZeroIds, finishOp |-> ZeroIds,
   Fill |-> 0, Reset |-> 0, Compact |-> 0]

\* ------------------------------------------------------ bencher (handle)
newBench(p) == [NoHandle EXCEPT !.state = "Running", !.par = p]

IsFinished(h) == h.finishedFlag

finish(h, who) ==
  [h EXCEPT !.state = "Finished", !.finishedFlag = TRUE,
            !.finishes = @ + 1, !.finishedBy = who]

stop(h) == [h EXCEPT !.state = "Stopped", !.stops = @ + 1]

\* ------------------------------------------------------------------- Init
Init ==
  /\ \E s \in FilterStrings, l \in BOOLEAN :
       conf = [BenchFilter |-> CompileFilter(s), ListBenches |-> l]
  /\ kiters \in 0..MaxKiters
  /\ par \in 0..MaxPar
  /\ bi = 1
  /\ mpc = "runBench"
  /\ ip = 0
  /\ i = 0
  /\ mcall = "none"
  /\ bench = [b \in Benches |-> NoHandle]
  /\ events = [b \in Benches |-> <<>>]
  /\ out = <<>>
  /\ daemon = [b \in Benches |-> NoDaemon]
  /\ worker = [b \in Benches |-> [t \in Ids |-> NoWorker]]
  /\ tally = [b \in Benches |-> NoTally]

\* Iterations of every workload loop: 1000*kiters.
Iters == Kilo * kiters

\* ------------------------------------------------------------- runBench
FilterRejectsAlways(c, name) == FALSE

FilterRejects(c, name) == ~MatchString(c.BenchFilter, name)

ListOnlyNever(c) == FALSE

ListOnly(c) == c.ListBenches

NeedsFinishAlways(h) == TRUE

NeedsFinish(h) == ~IsFinished(h)

NextBench ==
  /\ bi' = bi + 1
  /\ mpc' = IF bi = NumBenches THEN "exit" ELSE "runBench"
  /\ ip' = 0
  /\ i' = 0

RunBenchSkip ==
  /\ mpc = "runBench"
  /\ FilterRejects(conf, BenchName(bi, par))
  /\ NextBench
  /\ UNCHANGED <<conf, kiters, par, mcall, bench, events, out, daemon,
                 worker, tally>>

RunBenchList ==
  /\ mpc = "runBench"
  /\ ~FilterRejects(conf, BenchName(bi, par))
  /\ ListOnly(conf)
  /\ out' = Append(out, [bench |-> bi, kind |-> "name",
                         name |-> BenchName(bi, par), n |-> 0])
  /\ NextBench
  /\ UNCHANGED <<conf, kiters, par, mcall, bench, events, daemon, worker,
                 tally>>

RunBenchNew ==
  /\ mpc = "runBench"
  /\ ~FilterRejects(conf, BenchName(bi, par))
  /\ ~ListOnly(conf)
  /\ bench' = [bench EXCEPT
                 ![bi] = [newBench(BenchPar(bi, par)) EXCEPT !.invoked = TRUE]]
  /\ mpc' = "body"
  /\ ip' = 1
  /\ i' = 0
  /\ UNCHANGED <<conf, kiters, par, bi, mcall, events, out, daemon, worker,
                 tally>>

AtStmt(op) ==
  /\ mpc = "body"
  /\ ip <= Len(Body(bi))
  /\ Body(bi)[ip] = op

Done(op) == events' = [events EXCEPT ![bi] = Append(@, op)]

BodyReturn ==
  /\ mpc = "body"
  /\ ip > Len(Body(bi))
  /\ mpc' = "isFinished"
  /\ bench' = [bench EXCEPT ![bi].returned = TRUE]
  /\ UNCHANGED <<conf, kiters, par, bi, ip, i, mcall, events, out, daemon,
                 worker, tally>>

RunBenchFinish ==
  /\ mpc = "isFinished"
  /\ NeedsFinish(bench[bi])
  /\ bench' = [bench EXCEPT ![bi] = finish(@, "runBench")]
  /\ Done("finish")
  /\ mpc' = "stop"
  /\ UNCHANGED <<conf, kiters, par, bi, ip, i, mcall, out, daemon, worker,
                 tally>>

RunBenchFinished ==
  /\ mpc = "isFinished"
  /\ ~NeedsFinish(bench[bi])
  /\ mpc' = "stop"
  /\ UNCHANGED <<conf, kiters, par, bi, ip, i, mcall, bench, events, out,
                 daemon, worker, tally>>

RunBenchNoStop ==
  /\ mpc = "stop"
  /\ NextBench
  /\ UNCHANGED <<conf, kiters, par, mcall, bench, events, out, daemon,
                 worker, tally>>

RunBenchStop ==
  /\ mpc = "stop"
  /\ bench' = [bench EXCEPT ![bi] = stop(@)]
  /\ Done("stop")
  /\ NextBench
  /\ UNCHANGED <<conf, kiters, par, mcall, out, daemon, worker, tally>>

\* ---------------------------------------------------- body statements
Bump(op, id) == tally' = [tally EXCEPT ![bi][op][id] = @ + Kilo]

IterCondOver(j, n) == j <= n

\* i < 1000*kiters
IterCond(j, n) == j < n

SpawnCondShort(tid, p) == tid < p - 1

\* tid < par, in the loop that starts the goroutines
SpawnCond(tid, p) == tid < p

JoinCondLong(tid, p) == tid < p + 1

JoinCondShort(tid, p) == tid < p - 1

\* tid < par, in the loop that receives from done
JoinCond(tid, p) == tid < p

\* b.Fill(), b.Compact(), b.Reset() called by the body itself
EngineCallBegin ==
  /\ \E op \in {"Fill", "Compact", "Reset"} :
       /\ AtStmt(op)
       /\ mcall = "none"
       /\ mcall' = op
       /\ tally' = [tally EXCEPT ![bi][op] = @ + 1]
  /\ UNCHANGED <<conf, kiters, par, bi, mpc, ip, i, bench, events, out,
                 daemon, worker>>

EngineCallEnd ==
  /\ \E op \in {"Fill", "Compact", "Reset"} :
       /\ AtStmt(op)
       /\ mcall = op
       /\ Done(op)
  /\ mcall' = "none"
  /\ ip' = ip + 1
  /\ UNCHANGED <<conf, kiters, par, bi, mpc, i, bench, out, daemon, worker,
                 tally>>

LoopCall(stmt) == IF stmt = "WriteLoop" THEN "Write" ELSE "Read"

\* for i := 0; i < 1000*kiters; i++ { b.finishOp(0, b.Write(0)) }
MainLoopCall ==
  /\ \E stmt \in {"WriteLoop", "ReadLoop"} :
       /\ AtStmt(stmt)
       /\ mcall = "none"
       /\ IterCond(i, Iters)
       /\ mcall' = LoopCall(stmt)
       /\ Bump(LoopCall(stmt), 0)
  /\ UNCHANGED <<conf, kiters, par, bi, mpc, ip, i, bench, events, out,
                 daemon, worker>>

MainLoopCallEnd ==
  /\ mpc = "body"
  /\ mcall \in {"Write", "Read"}
  /\ mcall' = "finishOp"
  /\ UNCHANGED <<conf, kiters, par, bi, mpc, ip, i, bench, events, out,
                 daemon, worker, tally>>

MainLoopFinishOp ==
  /\ mpc = "body"
  /\ mcall = "finishOp"
  /\ Bump("finishOp", 0)
  /\ mcall' = "none"
  /\ i' = i + Kilo
  /\ UNCHANGED <<conf, kiters, par, bi, mpc, ip, bench, events, out, daemon,
                 worker>>

MainLoopExit ==
  /\ \E stmt \in {"WriteLoop", "ReadLoop"} :
       /\ AtStmt(stmt)
       /\ mcall = "none"
       /\ ~IterCond(i, Iters)
       /\ Done(stmt)
  /\ ip' = ip + 1
  /\ i' = 0
  /\ UNCHANGED <<conf, kiters, par, bi, mpc, mcall, bench, out, daemon,
                 worker, tally>>

\* stopCompaction := startCompaction(b)
StartCompaction ==
  /\ AtStmt("startCompaction")
  /\ daemon' = [daemon EXCEPT ![bi] = [NoDaemon EXCEPT !.pc = "select"]]
  /\ Done("startCompaction")
  /\ ip' = ip + 1
  /\ UNCHANGED <<conf, kiters, par, bi, mpc, i, mcall, bench, out, worker,
                 tally>>

\* done := make(chan bool)
MakeDone ==
  /\ AtStmt("makeDone")
  /\ Done("makeDone")
  /\ ip' = ip + 1
  /\ i' = 0
  /\ UNCHANGED <<conf, kiters, par, bi, mpc, mcall, bench, out, daemon,
                 worker, tally>>

SpawnSharedTid ==
  /\ AtStmt("spawn")
  /\ SpawnCond(i, par)
  /\ worker' = [worker EXCEPT
                  ![bi][i] = [pc |-> "loop", i |-> 0, tid |-> 0, sends |-> 0]]
  /\ i' = i + 1
  /\ UNCHANGED <<conf, kiters, par, bi, mpc, ip, mcall, bench, events, out,
                 daemon, tally>>

\* for tid := 0; tid < par; tid++ { go func(tid int) {...}(tid) }
Spawn ==
  /\ AtStmt("spawn")
  /\ SpawnCond(i, par)
  /\ worker' = [worker EXCEPT
                  ![bi][i] = [pc |-> "loop", i |-> 0, tid |-> i, sends |-> 0]]
  /\ i' = i + 1
  /\ UNCHANGED <<conf, kiters, par, bi, mpc, ip, mcall, bench, events, out,
                 daemon, tally>>

SpawnExit ==
  /\ AtStmt("spawn")
  /\ ~SpawnCond(i, par)
  /\ Done("spawn")
  /\ ip' = ip + 1
  /\ i' = 0
  /\ UNCHANGED <<conf, kiters, par, bi, mpc, mcall, bench, out, daemon,
                 worker, tally>>

\* for tid := 0; tid < par; tid++ { <-done }, meeting worker t's done <- true
JoinRecv(t) ==
  /\ AtStmt("join")
  /\ JoinCond(i, par)
  /\ worker[bi][t].pc = "send"
  /\ worker' = [worker EXCEPT ![bi][t].pc = "done", ![bi][t].sends = @ + 1]
  /\ bench' = [bench EXCEPT ![bi].joinRecvs = @ + 1]
  /\ i' = i + 1
  /\ UNCHANGED <<conf, kiters, par, bi, mpc, ip, mcall, events, out, daemon,
                 tally>>

JoinExit ==
  /\ AtStmt("join")
  /\ ~JoinCond(i, par)
  /\ Done("join")
  /\ ip' = ip + 1
  /\ i' = 0
  /\ UNCHANGED <<conf, kiters, par, bi, mpc, mcall, bench, out, daemon,
                 worker, tally>>

\* b.finish() called by the body
ExplicitFinish ==
  /\ AtStmt("finish")
  /\ bench' = [bench EXCEPT ![bi] = finish(@, "body")]
  /\ Done("finish")
  /\ ip' = ip + 1
  /\ UNCHANGED <<conf, kiters, par, bi, mpc, i, mcall, out, daemon, worker,
                 tally>>

\* numCompactions := <-stopCompaction: the caller starts to wait
BeginRecvStop ==
  /\ AtStmt("recvStop")
  /\ ~daemon[bi].recvq
  /\ daemon[bi].got = NoVal
  /\ daemon' = [daemon EXCEPT ![bi].recvq = TRUE,
                              ![bi].waitPc = daemon[bi].pc,
                              ![bi].waitDone = daemon[bi].completed]
  /\ UNCHANGED <<conf, kiters, par, bi, mpc, ip, i, mcall, bench, events,
                 out, worker, tally>>

\* select: the case "done <- numCompactions" can proceed
DaemonSendsAnywhere(d) == d.recvq

DaemonNeverSends(d) == FALSE

DaemonMaySend(d) == d.pc = "select" /\ d.recvq

\* The rendezvous of "case done <- numCompactions: return" with the receive.
HandshakeNoReturn ==
  /\ AtStmt("recvStop")
  /\ DaemonMaySend(daemon[bi])
  /\ daemon' = [daemon EXCEPT ![bi].got = daemon[bi].numCompactions,
                              ![bi].sent = @ + 1,
                              ![bi].recvq = FALSE,
                              ![bi].waitPc = "none",
                              ![bi].waitDone = NoVal]
  /\ Done("recvStop")
  /\ ip' = ip + 1
  /\ UNCHANGED <<conf, kiters, par, bi, mpc, i, mcall, bench, out, worker,
                 tally>>

Handshake ==
  /\ AtStmt("recvStop")
  /\ DaemonMaySend(daemon[bi])
  /\ daemon' = [daemon EXCEPT ![bi].got = daemon[bi].numCompactions,
                              ![bi].sent = @ + 1,
                              ![bi].recvq = FALSE,
                              ![bi].waitPc = "none",
                              ![bi].waitDone = NoVal,
                              ![bi].pc = "done"]
  /\ Done("recvStop")
  /\ ip' = ip + 1
  /\ UNCHANGED <<conf, kiters, par, bi, mpc, i, mcall, bench, out, worker,
                 tally>>

\* fmt.Printf("  finished %d compactions\n", numCompactions)
Printf ==
  /\ AtStmt("printf")
  /\ out' = Append(out, [bench |-> bi, kind |-> "compactions",
                         name |-> <<>>, n |-> daemon[bi].got])
  /\ Done("printf")
  /\ ip' = ip + 1
  /\ UNCHANGED <<conf, kiters, par, bi, mpc, i, mcall, bench, daemon, worker,
                 tally>>

\* ------------------------------------------------- compaction goroutine
DaemonSelectBlind(b) ==
  /\ daemon[b].pc = "select"
  /\ daemon[b].numCompactions < MaxCompactions
  /\ daemon' = [daemon EXCEPT ![b].pc = "default"]
  /\ UNCHANGED <<conf, kiters, par, bi, mpc, ip, i, mcall, bench, events,
                 out, worker, tally>>

\* select: no receiver is ready, the default case is chosen
DaemonSelectDefault(b) ==
  /\ daemon[b].pc = "select"
  /\ ~daemon[b].recvq
  /\ daemon[b].numCompactions < MaxCompactions
  /\ daemon' = [daemon EXCEPT ![b].pc = "default"]
  /\ UNCHANGED <<conf, kiters, par, bi, mpc, ip, i, mcall, bench, events,
                 out, worker, tally>>

\* b.Compact() is entered
DaemonCompactBegin(b) ==
  /\ daemon[b].pc = "default"
  /\ daemon' = [daemon EXCEPT ![b].pc = "Compact"]
  /\ UNCHANGED <<conf, kiters, par, bi, mpc, ip, i, mcall, bench, events,
                 out, worker, tally>>

\* b.Compact() returns
DaemonCompactEnd(b) ==
  /\ daemon[b].pc = "Compact"
  /\ daemon' = [daemon EXCEPT ![b].pc = "incr", ![b].completed = @ + 1]
  /\ UNCHANGED <<conf, kiters, par, bi, mpc, ip, i, mcall, bench, events,
                 out, worker, tally>>

DaemonIncrLost(b) ==
  /\ daemon[b].pc = "incr"
  /\ daemon' = [daemon EXCEPT ![b].pc = "select"]
  /\ UNCHANGED <<conf, kiters, par, bi, mpc, ip, i, mcall, bench, events,
                 out, worker, tally>>

\* numCompactions++
DaemonIncr(b) ==
  /\ daemon[b].pc = "incr"
  /\ daemon' = [daemon EXCEPT ![b].pc = "select", ![b].numCompactions = @ + 1]
  /\ UNCHANGED <<conf, kiters, par, bi, mpc, ip, i, mcall, bench, events,
                 out, worker, tally>>

\* ------------------------------------------------------ fan-out goroutine
WorkerSendsFirst(b, t) ==
  /\ worker[b][t].pc = "loop"
  /\ worker' = [worker EXCEPT ![b][t].pc = "send"]
  /\ UNCHANGED <<conf, kiters, par, bi, mpc, ip, i, mcall, bench, events,
                 out, daemon, tally>>

\* for i := 0; i < 1000*kiters; i++ { b.finishOp(tid, b.Read(tid)) }
\* A goroutine at "op" is inside the statement b.finishOp(tid, b.Read(tid)).
\* The goroutine starts: the first loop test, then the statement is entered
\* or the goroutine reaches "done <- true".
WorkerStart(b, t) ==
  /\ worker[b][t].pc = "loop"
  /\ IF IterCond(worker[b][t].i, Iters)
     THEN /\ worker' = [worker EXCEPT ![b][t].pc = "op"]
          /\ tally' = [tally EXCEPT ![b].Read[worker[b][t].tid] = @ + Kilo]
     ELSE /\ worker' = [worker EXCEPT ![b][t].pc = "send"]
          /\ UNCHANGED tally
  /\ UNCHANGED <<conf, kiters, par, bi, mpc, ip, i, mcall, bench, events,
                 out, daemon>>

\* b.finishOp returns, i++, and the loop test sends the goroutine into the
\* statement again
WorkerNextOp(b, t) ==
  /\ worker[b][t].pc = "op"
  /\ IterCond(worker[b][t].i + Kilo, Iters)
  /\ worker' = [worker EXCEPT ![b][t].i = @ + Kilo]
  /\ tally' = [tally EXCEPT ![b].finishOp[worker[b][t].tid] = @ + Kilo,
                            ![b].Read[worker[b][t].tid] = @ + Kilo]
  /\ UNCHANGED <<conf, kiters, par, bi, mpc, ip, i, mcall, bench, events,
                 out, daemon>>

\* b.finishOp returns, i++, the loop is over: the goroutine reaches
\* "done <- true"
WorkerLoopExit(b, t) ==
  /\ worker[b][t].pc = "op"
  /\ ~IterCond(worker[b][t].i + Kilo, Iters)
  /\ worker' = [worker EXCEPT ![b][t].pc = "send", ![b][t].i = @ + Kilo]
  /\ tally' = [tally EXCEPT ![b].finishOp[worker[b][t].tid] = @ + Kilo]
  /\ UNCHANGED <<conf, kiters, par, bi, mpc, ip, i, mcall, bench, events,
                 out, daemon>>

\* ------------------------------------------------------------------ Next
MainSolo ==
  \/ RunBenchSkip
  \/ RunBenchList
  \/ RunBenchNew
  \/ EngineCallBegin
  \/ EngineCallEnd
  \/ MainLoopCall
  \/ MainLoopCallEnd
  \/ MainLoopFinishOp
  \/ MainLoopExit
  \/ StartCompaction
  \/ MakeDone
  \/ Spawn
  \/ SpawnExit
  \/ \E t \in Ids : JoinRecv(t)
  \/ JoinExit
  \/ ExplicitFinish
  \/ BeginRecvStop
  \/ Printf
  \/ BodyReturn
  \/ RunBenchFinish
  \/ RunBenchFinished
  \/ RunBenchStop

DaemonSolo(b) ==
  \/ DaemonSelectDefault(b)
  \/ DaemonCompactBegin(b)
  \/ DaemonCompactEnd(b)
  \/ DaemonIncr(b)

WorkerStep(b, t) ==
  \/ WorkerStart(b, t)
  \/ WorkerNextOp(b, t)
  \/ WorkerLoopExit(b, t)

Next ==
  \/ MainSolo
  \/ Handshake
  \/ \E b \in Benches : DaemonSolo(b)
  \/ \E b \in Benches, t \in Ids : WorkerStep(b, t)

\* The steps of the main goroutine and of the goroutine of benchmark b's
\* daemon; the handshake is a step of both.
MainStep == MainSolo \/ Handshake

DaemonStep(b) == DaemonSolo(b) \/ (b = bi /\ Handshake)

Spec == Init /\ [][Next]_vars

\* The benchmarks whose body starts a daemon, and those that fan out.
DaemonBenches == {b \in Benches : \E k \in 1..Len(Body(b)) : Body(b)[k] = "startCompaction"}

FanOutBenches == {b \in Benches : \E k \in 1..Len(Body(b)) : Body(b)[k] = "spawn"}

\* Every goroutine that can take a step eventually does; bencher calls return.
FairSpec ==
  /\ Spec
  /\ WF_vars(MainStep)
  /\ \A b \in DaemonBenches : WF_vars(DaemonStep(b))
  /\ \A b \in FanOutBenches, t \in Ids : WF_vars(WorkerStep(b, t))

TypeOK ==
  /\ bi \in 1..(NumBenches + 1)
  /\ mpc \in {"runBench", "body", "isFinished", "stop", "exit"}
  /\ \A b \in Benches :
       /\ bench[b].state \in {"none", "Running", "Finished", "Stopped"}
       /\ daemon[b].pc \in {"none", "select", "default", "Compact", "incr", "done"}
       /\ \A t \in Ids :
            worker[b][t].pc \in {"none", "loop", "op", "send", "done"}

\* ------------------------------------------------------------ properties
Has(b, e) == \E k \in 1..Len(events[b]) : events[b][k] = e

\* every e1 stands before every e2 in the record ev
Before(ev, e1, e2) ==
  \A k \in 1..Len(ev) :
    ev[k] = e2 => \A j \in k..Len(ev) : ev[j] # e1

\* e2 occurs in ev only after an e1
Requires(ev, e2, e1) ==
  \A k \in 1..Len(ev) :
    ev[k] = e2 => \E j \in 1..(k - 1) : ev[j] = e1

In(ev, e) == \E k \in 1..Len(ev) : ev[k] = e

HasStmt(b, op) == \E k \in 1..Len(Body(b)) : Body(b)[k] = op

\* runBench(b) has been entered and has passed its two early returns
Dispatched(b) == b < bi \/ (b = bi /\ mpc # "runBench")

Matches(b) == MatchString(conf.BenchFilter, BenchName(b, par))

LinesOf(b) == {k \in 1..Len(out) : out[k].bench = b}

NameLinesOf(b) ==
  {k \in 1..Len(out) : /\ out[k].bench = b
                       /\ out[k].kind = "name"
                       /\ out[k].name = BenchName(b, par)}

Untouched(b) ==
  /\ bench[b] = NoHandle
  /\ events[b] = <<>>
  /\ daemon[b] = NoDaemon
  /\ tally[b] = NoTally
  /\ \A t \in Ids : worker[b][t] = NoWorker

\* C1: the value the caller receives from the daemon's channel is exactly the
\* number of b.Compact() calls the daemon has completed; whenever the daemon
\* is at its select, the value it would send counts every completed
\* compaction once and none in flight (0 before the first one completes).
C1_HandshakeExact ==
  \A b \in Benches :
    /\ daemon[b].got # NoVal => daemon[b].got = daemon[b].completed
    /\ daemon[b].pc = "select" =>
         daemon[b].numCompactions = daemon[b].completed
    /\ daemon[b].pc \in {"default", "Compact"} =>
         daemon[b].numCompactions = daemon[b].completed

C1_Witness ==
  \E b \in Benches : daemon[b].got >= 1 /\ daemon[b].sent = 1

\* C2: once the caller's receive has returned the daemon goroutine has
\* terminated: it never changes state again (no further compaction, no second
\* send), and at most one value is ever delivered on the channel.
C2_DaemonEndsAtHandshake ==
  /\ [](\A b \in Benches :
          /\ daemon[b].sent <= 1
          /\ daemon[b].got # NoVal =>
               (daemon[b].pc = "done" /\ daemon[b].sent = 1))
  /\ [][\A b \in Benches :
          daemon[b].pc = "done" => daemon'[b] = daemon[b]]_vars

C2_Witness ==
  \E b \in Benches :
    /\ daemon[b].pc = "done"
    /\ daemon[b].completed >= 1
    /\ bench[b].state = "Stopped"

\* C3: the handshake completes only while the daemon is at its select with no
\* b.Compact() in progress and every completed compaction counted; a receive
\* that began during a compaction returns a count that includes it.
C3_NoCompactionInterrupted ==
  /\ [][\A b \in Benches :
          daemon'[b].sent > daemon[b].sent =>
            /\ daemon[b].pc = "select"
            /\ daemon[b].numCompactions = daemon[b].completed
            /\ daemon'[b].completed = daemon[b].completed
            /\ daemon'[b].got = daemon[b].completed
            /\ daemon[b].waitPc = "Compact" =>
                 daemon'[b].got >= daemon[b].waitDone + 1]_vars
  /\ [](\A b \in Benches :
          daemon[b].got # NoVal => daemon[b].pc \notin {"Compact", "incr"})

\* the receive began inside a compaction that has since finished and been
\* counted, and the daemon is back at its select
C3_Witness ==
  \E b \in Benches :
    /\ daemon[b].recvq
    /\ daemon[b].waitPc = "Compact"
    /\ daemon[b].pc = "select"
    /\ daemon[b].numCompactions = daemon[b].waitDone + 1

\* C4: under fair scheduling, once the daemon of "write + compact" has been
\* started, the body eventually returns, having received a count >= 0 after
\* all 1000*kiters writes.
WriteCompact == 2

C4_WriteCompactReturns ==
  (bi = WriteCompact /\ daemon[WriteCompact].pc # "none")
    ~> (/\ bench[WriteCompact].returned
        /\ daemon[WriteCompact].got >= 0
        /\ tally[WriteCompact].Write[0] = Iters)

C4_Witness ==
  /\ bench[WriteCompact].returned
  /\ daemon[WriteCompact].got >= 1
  /\ tally[WriteCompact].Write[0] = Iters
  /\ kiters >= 2

\* C5: once the join loop of a parallel body has returned, exactly par
\* signals have been received, one from each of the par workers, and every
\* worker has run all of its 1000*kiters iterations; the signals received so
\* far always come from distinct workers that are done.
C5_JoinComplete ==
  \A b \in Benches :
    /\ bench[b].joinRecvs =
         Cardinality({t \in Ids : worker[b][t].pc = "done"})
    /\ \A t \in Ids :
         worker[b][t].pc = "done" =>
           /\ worker[b][t].i = Iters
           /\ tally[b].Read[t] = Iters
           /\ tally[b].finishOp[t] = Iters
    /\ Has(b, "join") =>
         /\ bench[b].joinRecvs = par
         /\ \A t \in Ids :
              worker[b][t].pc = IF t < par THEN "done" ELSE "none"

C5_Witness ==
  \E b \in Benches : Has(b, "join") /\ par >= 2 /\ kiters >= 2

\* C6 (as claimed): the body is invoked if and only if the filter matches
\* the name, whatever the list-only flag.
C6_BodyIffMatch ==
  \A b \in Benches : Dispatched(b) => (bench[b].invoked <=> Matches(b))

\* C6 (amended): the body is invoked if and only if the filter matches the
\* name and list-only mode is off; when the filter does not match, nothing is
\* printed, no handle is constructed and neither finish nor stop is called.
C6_BodyIffMatchAndNotList ==
  \A b \in Benches :
    Dispatched(b) =>
      /\ bench[b].invoked <=> (Matches(b) /\ ~conf.ListBenches)
      /\ ~Matches(b) => (LinesOf(b) = {} /\ Untouched(b))

C6_Witness ==
  \E b, c \in Benches :
    /\ Dispatched(b) /\ ~Matches(b) /\ Untouched(b)
    /\ Matches(c) /\ bench[c].invoked /\ bench[c].state = "Stopped"

\* C7 (as claimed): in list-only mode every dispatched benchmark prints
\* exactly one line with its name, and none runs its body or gets a handle.
C7_ListOneLineEach ==
  conf.ListBenches =>
    \A b \in Benches :
      b < bi => (Untouched(b) /\ Cardinality(NameLinesOf(b)) = 1)

\* C7 (amended): in list-only mode no dispatched benchmark runs its body or
\* gets a handle; one whose name matches the filter prints exactly one line,
\* its name, and one whose name does not match prints nothing.
C7_ListOneLinePerMatch ==
  conf.ListBenches =>
    \A b \in Benches :
      /\ Untouched(b)
      /\ LinesOf(b) = NameLinesOf(b)
      /\ b < bi =>
           Cardinality(NameLinesOf(b)) = IF Matches(b) THEN 1 ELSE 0

C7_Witness ==
  /\ conf.ListBenches
  /\ \E b, c \in Benches :
       /\ b < bi /\ Cardinality(NameLinesOf(b)) = 1
       /\ c < bi /\ LinesOf(c) = {}

\* C8: every executed benchmark is finished exactly once, by its body when
\* the body calls b.finish() and by runBench otherwise, and then stopped
\* exactly once; finish is never performed twice on a handle.
C8_SingleFinalize ==
  \A b \in Benches :
    /\ bench[b].finishes <= 1
    /\ bench[b].stops <= 1
    /\ bench[b].stops = 1 => bench[b].finishes = 1
    /\ Requires(events[b], "stop", "finish")
    /\ bench[b].finishes = 1 =>
         bench[b].finishedBy =
           IF HasStmt(b, "finish") THEN "body" ELSE "runBench"
    /\ (b < bi /\ bench[b].invoked) =>
         (bench[b].finishes = 1 /\ bench[b].stops = 1)

C8_Witness ==
  \E b, c \in Benches :
    /\ bench[b].stops = 1 /\ bench[b].finishedBy = "body"
    /\ bench[c].stops = 1 /\ bench[c].finishedBy = "runBench"

\* The order every benchmark keeps, whichever way finish and the daemon stop
\* are ordered.
OrderCommon(ev) ==
  /\ \A s \in {"Fill", "Reset", "Compact"} :
       /\ Before(ev, s, "startCompaction")
       /\ Before(ev, s, "spawn")
  /\ Before(ev, "startCompaction", "spawn")
  /\ Requires(ev, "join", "spawn")
  /\ Before(ev, "join", "finish")
  /\ Before(ev, "join", "recvStop")
  /\ Requires(ev, "recvStop", "startCompaction")
  /\ Requires(ev, "stop", "finish")
  /\ Before(ev, "recvStop", "stop")
  /\ (In(ev, "startCompaction") /\ In(ev, "stop")) => In(ev, "recvStop")

\* C9 (as claimed): setup, daemon start, fan-out, join, daemon stop
\* handshake, finish, stop: whenever a step of a benchmark completes, the
\* steps completed so far stand in that order, the daemon stop handshake
\* before the finish.
C9_StopBeforeFinish ==
  [][\A b \in Benches :
       events'[b] # events[b] =>
         (OrderCommon(events'[b]) /\ Before(events'[b], "recvStop", "finish"))]_vars

\* C9 (amended): setup, daemon start, fan-out, join, finish, daemon stop
\* handshake, stop: whenever a step of a benchmark completes, the steps
\* completed so far stand in that order; in the benchmarks that start a
\* daemon the body's explicit finish precedes the daemon stop handshake.
C9_FinishBeforeStop ==
  [][\A b \in Benches :
       events'[b] # events[b] =>
         (OrderCommon(events'[b]) /\ Requires(events'[b], "recvStop", "finish"))]_vars

C9_Witness ==
  \E b \in Benches :
    Has(b, "spawn") /\ Has(b, "recvStop") /\ Has(b, "stop")

\* C10: at most one handle is live at a time, it is the handle of the
\* benchmark main is at, and a handle is constructed only when every earlier
\* benchmark was skipped or has been stopped.
Live(b) == bench[b].state \in {"Running", "Finished"}

C10_Sequential ==
  /\ Cardinality({b \in Benches : Live(b)}) <= 1
  /\ \A b \in Benches : Live(b) => b = bi
  /\ \A b, c \in Benches :
       (b < c /\ bench[c].state # "none") =>
         bench[b].state \in {"none", "Stopped"}

C10_Witness ==
  \E b, c \in Benches :
    b < c /\ bench[b].state = "Stopped" /\ Live(c)

Count(ev, e) == Cardinality({k \in 1..Len(ev) : ev[k] = e})

\* C11: a body starts at most one daemon and receives at most once, only from
\* a daemon it has started; when a body that started a daemon returns, it has
\* received exactly once and the daemon has terminated.
C11_StartStopPaired ==
  \A b \in Benches :
    /\ Count(events[b], "startCompaction") <= 1
    /\ Count(events[b], "recvStop") <= 1
    /\ Requires(events[b], "recvStop", "startCompaction")
    /\ daemon[b].pc # "none" <=> In(events[b], "startCompaction")
    /\ daemon[b].sent = Count(events[b], "recvStop")
    /\ bench[b].returned =>
         /\ daemon[b].pc \in {"none", "done"}
         /\ Count(events[b], "recvStop") = Count(events[b], "startCompaction")

C11_Witness ==
  \E b \in Benches :
    /\ bench[b].returned
    /\ bench[b].state = "Finished"
    /\ Count(events[b], "startCompaction") = 1
    /\ Count(events[b], "recvStop") = 1

\* C12: once the spawn loop of a parallel body is over, exactly the workers
\* with ids 0..par-1 exist, each started with its own id; a worker sends on
\* the completion channel at most once, and is at or past its send only when
\* its workload loop has run to completion.
C12_SpawnExact ==
  \A b \in Benches :
    /\ \A t \in Ids :
         /\ worker[b][t].pc # "none" => (t < par /\ worker[b][t].tid = t)
         /\ worker[b][t].sends = IF worker[b][t].pc = "done" THEN 1 ELSE 0
         /\ worker[b][t].pc \in {"send", "done"} =>
              (worker[b][t].i = Iters /\ tally[b].finishOp[t] = Iters)
    /\ Has(b, "spawn") =>
         /\ {t \in Ids : worker[b][t].pc # "none"} = {t \in Ids : t < par}
         /\ \A t, u \in Ids :
              (t < par /\ u < par /\ t # u) => worker[b][t].tid # worker[b][u].tid
    /\ ~HasStmt(b, "spawn") => \A t \in Ids : worker[b][t] = NoWorker

C12_Witness ==
  \E b \in Benches :
    /\ Has(b, "spawn")
    /\ par = MaxPar
    /\ kiters >= 1
    /\ \A t \in Ids : worker[b][t].sends = 1

\* main is inside b.Read, b.Write or b.finishOp, which it calls as worker 0
MainInOp == mcall \in {"Read", "Write", "finishOp"}

\* C13: when the join of a parallel body has returned, each of the par worker
\* ids has exactly 1000*kiters Read calls and 1000*kiters finishOp calls
\* recorded and no other id has any; no two goroutines are ever inside Read
\* or finishOp with the same worker id.
C13_PerWorkerOps ==
  /\ \A b \in Benches :
       /\ \A t \in Ids :
            /\ tally[b].finishOp[t] <= tally[b].Read[t] + tally[b].Write[t]
            /\ tally[b].Read[t] + tally[b].Write[t] <= Iters
       /\ Has(b, "join") =>
            \A t \in Ids :
              /\ tally[b].Read[t] = IF t < par THEN Iters ELSE 0
              /\ tally[b].finishOp[t] = IF t < par THEN Iters ELSE 0
              /\ tally[b].Write[t] = 0
  /\ \A b, c \in Benches : \A t, u \in Ids :
       (<<b, t>> # <<c, u>> /\ worker[b][t].pc = "op" /\ worker[c][u].pc = "op")
         => worker[b][t].tid # worker[c][u].tid
  /\ MainInOp => \A b \in Benches : \A t \in Ids : worker[b][t].pc # "op"

C13_Witness ==
  \E b \in Benches : \E t \in Ids :
    /\ Has(b, "join")
    /\ t >= 1
    /\ kiters >= 1
    /\ tally[b].Read[t] = Iters
    /\ tally[b].finishOp[t] = Iters

Writes == 1

\* C14: the "writes" benchmark issues exactly 1000*kiters Write calls, all as
\* worker 0 and each followed by its finishOp, then exactly one Compact after
\* the last write; it starts no daemon and no worker; only after the Compact
\* does runBench finish the handle, and then stop it.
C14_SequentialWrites ==
  /\ daemon[Writes] = NoDaemon
  /\ \A t \in Ids : worker[Writes][t] = NoWorker
  /\ tally[Writes].finishOp[0] <= tally[Writes].Write[0]
  /\ tally[Writes].Write[0] <= tally[Writes].finishOp[0] + Kilo
  /\ tally[Writes].Compact <= 1
  /\ tally[Writes].Compact = 1 =>
       (tally[Writes].Write[0] = Iters /\ tally[Writes].finishOp[0] = Iters)
  /\ bench[Writes].finishes >= 1 =>
       (In(events[Writes], "Compact") /\ bench[Writes].finishedBy = "runBench")
  /\ bench[Writes].state = "Stopped" =>
       /\ tally[Writes] = [NoTally EXCEPT !.Write[0] = Iters,
                                          !.finishOp[0] = Iters,
                                          !.Compact = 1]
       /\ events[Writes] = <<"WriteLoop", "Compact", "finish", "stop">>

C14_Witness ==
  /\ bench[Writes].state = "Stopped"
  /\ kiters = MaxKiters
  /\ tally[Writes].Write[0] = Kilo * MaxKiters
  /\ tally[Writes].Compact = 1

\* C15: while the caller is blocked in the receive the daemon's select never
\* takes the default case, so only a compaction already chosen or in flight
\* when the caller began to wait can still complete: the count received is at
\* most one more than the compactions completed at that moment.
C15_BoundedStop ==
  [][\A b \in Benches :
       /\ daemon[b].recvq =>
            ~(daemon[b].pc = "select" /\ daemon'[b].pc = "default")
       /\ daemon'[b].sent > daemon[b].sent =>
            /\ daemon[b].recvq
            /\ daemon'[b].got >= daemon[b].waitDone
            /\ daemon'[b].got <= daemon[b].waitDone + 1
            /\ daemon[b].waitPc = "select" =>
                 daemon'[b].got = daemon[b].waitDone]_vars

\* the caller waits while the compaction chosen before it waited completes
C15_Witness ==
  \E b \in Benches :
    /\ daemon[b].recvq
    /\ daemon[b].waitPc = "default"
    /\ daemon[b].pc = "incr"
    /\ daemon[b].completed = daemon[b].waitDone + 1

\* main is in the join loop of benchmark b with a receive still to do
ReceiverReady(b) == b = bi /\ AtStmt("join") /\ JoinCond(i, par)

\* C16 (as claimed): no worker is ever blocked on the orchestrator: a worker
\* at its completion send always finds the orchestrator receiving.
C16_NeverBlocked ==
  \A b \in Benches : \A t \in Ids :
    worker[b][t].pc = "send" => ReceiverReady(b)

\* C16 (amended): a worker inside its loop can always take its next step; a
\* worker waits only at its completion send, after all its iterations, and
\* only for the join loop of its own benchmark, which is still to come or
\* under way and which can receive from it whenever it is receiving.
C16_BlockedOnlyAtSend ==
  \A b \in Benches : \A t \in Ids :
    /\ worker[b][t].pc \in {"loop", "op"} => ENABLED WorkerStep(b, t)
    /\ worker[b][t].pc = "send" =>
         /\ worker[b][t].i = Iters
         /\ tally[b].finishOp[worker[b][t].tid] = Iters
         /\ b = bi
         /\ mpc = "body"
         /\ ~Has(b, "join")
         /\ ReceiverReady(b) => ENABLED JoinRecv(t)

C16_Witness ==
  \E b \in Benches : \E t \in Ids :
    /\ worker[b][t].pc = "send"
    /\ ~ReceiverReady(b)
    /\ kiters >= 1

\* the join loop of b has returned with every send received exactly once
JoinedClean(b) ==
  /\ bench[b].joinRecvs = par
  /\ \A t \in Ids :
       /\ worker[b][t].pc = (IF t < par THEN "done" ELSE "none")
       /\ worker[b][t].sends = (IF t < par THEN 1 ELSE 0)

\* the body of b has created its completion channel and its join loop has
\* not returned yet
FanOutPending(b) == Has(b, "makeDone") /\ ~Has(b, "join")

\* C17: under fair scheduling every fan-out body that has created its
\* completion channel eventually gets through its join loop (only the
\* benchmark main is at can be in between, so a state without any fan-out in
\* between is one where that join has returned), and whenever the join loop
\* has returned every spawned worker has delivered its one signal: par
\* sends, par receives, nobody left at the send.
C17_FanOutTerminates ==
  /\ [](\A b \in FanOutBenches :
          /\ Has(b, "join") => JoinedClean(b)
          /\ FanOutPending(b) => b = bi)
  /\ (\E b \in FanOutBenches : FanOutPending(b))
       ~> (\A b \in FanOutBenches : ~FanOutPending(b))

C17_Witness ==
  \E b \in FanOutBenches :
    /\ Has(b, "join")
    /\ par = MaxPar
    /\ kiters >= 1
    /\ JoinedClean(b)

\* the Read, Write and finishOp calls recorded on the handle of b
OpsOf(b) == <<tally[b].Read, tally[b].Write, tally[b].finishOp>>

\* C18: a Read, Write or finishOp call is recorded on a handle only in a step
\* before and after which no finish has been called on it, by the body or by
\* runBench, and once finish has been called neither main nor any worker is
\* inside such a call or inside a loop that issues them.
C18_NoOpsAfterFinish ==
  /\ [](\A b \in Benches :
          Has(b, "finish") =>
            /\ ~(b = bi /\ MainInOp)
            /\ \A t \in Ids : worker[b][t].pc \notin {"loop", "op"})
  /\ [][\A b \in Benches :
          OpsOf(b)' # OpsOf(b) =>
            ~In(events[b], "finish") /\ ~In(events'[b], "finish")]_vars

C18_Witness ==
  \E b, c \in Benches :
    /\ HasStmt(b, "finish")
    /\ Has(b, "finish")
    /\ tally[b].finishOp[0] > 0
    /\ ~HasStmt(c, "finish")
    /\ Has(c, "finish")
    /\ tally[c].finishOp[0] > 0

\* runBench is at b.stop() for the handle of b, or has called it
AtOrPastStop(b) == (b = bi /\ mpc = "stop") \/ Has(b, "stop")

\* no goroutine spawned by the body of b is still running
Quiescent(b) ==
  /\ daemon[b].pc \in {"none", "done"}
  /\ \A t \in Ids : worker[b][t].pc \in {"none", "done"}

\* C19: when runBench is at b.stop(), and ever after, every worker and the
\* daemon of that benchmark have terminated and main is inside no engine
\* call; after b.stop() no call is recorded on the handle any more and its
\* goroutines take no step.
C19_NothingOutlivesHandle ==
  /\ [](\A b \in Benches :
          AtOrPastStop(b) =>
            /\ Quiescent(b)
            /\ b = bi => mcall = "none")
  /\ [][\A b \in Benches :
          In(events[b], "stop") =>
            /\ tally'[b] = tally[b]
            /\ daemon'[b] = daemon[b]
            /\ worker'[b] = worker[b]]_vars

C19_Witness ==
  \E b \in Benches :
    /\ b = bi
    /\ mpc = "stop"
    /\ par = MaxPar
    /\ kiters >= 1
    /\ daemon[b].pc = "done"
    /\ daemon[b].completed >= 1
    /\ \A t \in Ids : worker[b][t].pc = "done"

\* the b.Compact() calls that have been entered and have not returned
CompactsInProgress ==
  (IF mcall = "Compact" THEN 1 ELSE 0)
    + Cardinality({b \in Benches : daemon[b].pc = "Compact"})

\* C20: at most one Compact call is in progress; while main is inside its own
\* Fill, Reset or Compact no daemon and no worker of any benchmark is
\* running; in every body all of main's Fill, Reset and Compact statements
\* are over before a daemon is started or a worker is spawned, and a body
\* starts at most one daemon.
C20_SetupAlone ==
  /\ CompactsInProgress <= 1
  /\ mcall \in {"Fill", "Reset", "Compact"} => \A b \in Benches : Quiescent(b)
  /\ \A b \in Benches :
       /\ Count(events[b], "startCompaction") <= 1
       /\ \A e1 \in {"Fill", "Reset", "Compact"} :
            \A e2 \in {"startCompaction", "spawn"} :
              Before(events[b], e1, e2)
       /\ ~Quiescent(b) =>
            /\ b = bi
            /\ Has(b, "Reset")
            /\ tally[b].Fill = 1
            /\ tally[b].Reset = 1

C20_Witness ==
  \E b \in Benches :
    /\ daemon[b].pc = "Compact"
    /\ daemon[b].completed >= 1
    /\ \E t \in Ids : worker[b][t].pc = "op"
    /\ tally[b].Compact = 1

====
